---- MODULE Spec2Model ----
(***************************************************************************)
(* Model of database.py: an in-memory key/value store with nested          *)
(* transactions.  A Context keeps a stack of Frame objects; every Frame    *)
(* holds the key/value pairs written in it (data), the keys unset in it    *)
(* (deleted) and a per-value counter (numbers) from which NUMEQUALTO is    *)
(* answered by summing over the stack.                                     *)
(***************************************************************************)
EXTENDS Integers, Sequences, FiniteSets, TLC

\* Variable names and values a client passes on the command line.  Values are
\* opaque strings, so the four-letter string NULL is one of them.
Keys == {"a", "b"}
Values == {"10", "20", "NULL"}

\* The literal 'NULL' of Context.get, and Python's None (no client string).
NULL == "NULL"
None == "<None>"

\* Most frames on the stack explored, and how far below zero a summed counter
\* (the sum of numbers[v] over the frames up to any height) is followed.
MaxDepth == 3
MaxDeficit == 1

InvalidRollback == "INVALID ROLLBACK"
InvalidCommit == "INVALID COMMIT - NO TRANSACTION(S) IN PROGRESS"

VARIABLES
    frames,  \* Context.frames: the stack of Frame objects, frames[1] the base
    op,      \* the command executed last
    out,     \* what that command printed ("" when nothing)
    ref,     \* reference model: one plain key -> value map
    saved,   \* reference model: the copies of ref saved by begin
    snap,    \* the results of every get and numequalto taken at each begin
    depth0,  \* len(self.frames) when the last command started
    begun    \* whether BEGIN was ever issued

vars == <<frames, op, out, ref, saved, snap, depth0, begun>>

----------------------------------------------------------------------------
\* Dictionaries

EmptyMap == [k \in {} |-> NULL]

Put(m, k, v) == [x \in (DOMAIN m) \cup {k} |-> IF x = k THEN v ELSE m[x]]

Del(m, k) == [x \in (DOMAIN m) \ {k} |-> m[x]]

----------------------------------------------------------------------------
\* class Frame.  A frame reaches the stack through self.context, so the
\* operators that need it take the whole stack fs and the frame's index i.

\* self.numbers is only ever read with a default of 0, so it is a total map.
NewFrame == [data |-> EmptyMap, numbers |-> [v \in Values |-> 0], deleted |-> {}]

Frame_get(f, var_name) ==
    IF var_name \in DOMAIN f.data THEN f.data[var_name] ELSE None

Frame_is_unset(f, var_name) == var_name \in f.deleted

Frame_numequalto(f, value) == f.numbers[value]

\* Mutant: the scan does not ask is_unset, so a deletion shadows nothing.
RECURSIVE GetFrom_noUnset(_, _, _)
GetFrom_noUnset(fs, i, var_name) ==
    IF i = 0 THEN None
    ELSE IF Frame_get(fs[i], var_name) # None THEN Frame_get(fs[i], var_name)
    ELSE GetFrom_noUnset(fs, i - 1, var_name)

\* The loop of Context.get over reversed(self.frames), from frame i down.
RECURSIVE GetFrom(_, _, _)
GetFrom(fs, i, var_name) ==
    IF i = 0 THEN None
    ELSE IF Frame_is_unset(fs[i], var_name) THEN NULL
    ELSE IF Frame_get(fs[i], var_name) # None THEN Frame_get(fs[i], var_name)
    ELSE GetFrom(fs, i - 1, var_name)

\* The value Context.get returns: None, 'NULL' or a stored value.
Context_get(fs, var_name) == GetFrom(fs, Len(fs), var_name)

\* What Context.get prints.
Printed(value) == IF value # None THEN value ELSE NULL

Frame_increase(f, value) == [f EXCEPT !.numbers[value] = @ + 1]

Frame_decrease(fs, i, var_name) ==
    LET f == fs[i] IN
    IF var_name \in DOMAIN f.data
    THEN [f EXCEPT !.numbers[f.data[var_name]] = @ - 1]
    ELSE LET value == Context_get(fs, var_name) IN
         IF value # None THEN [f EXCEPT !.numbers[value] = @ - 1] ELSE f

\* Mutant: self.deleted.discard(var_name) is missing.
Frame_set_noDiscard(fs, i, var_name, value) ==
    LET f == Frame_increase(Frame_decrease(fs, i, var_name), value) IN
    [fs EXCEPT ![i] = [f EXCEPT !.data = Put(@, var_name, value)]]

Frame_set(fs, i, var_name, value) ==
    LET f == Frame_increase(Frame_decrease(fs, i, var_name), value) IN
    [fs EXCEPT ![i] = [f EXCEPT !.deleted = @ \ {var_name},
                                !.data = Put(@, var_name, value)]]

Frame_unset(fs, i, var_name) ==
    LET f == Frame_decrease(fs, i, var_name) IN
    [fs EXCEPT ![i] = [f EXCEPT !.deleted = @ \cup {var_name},
                                !.data = Del(@, var_name)]]

----------------------------------------------------------------------------
\* class Context

Context_init == <<NewFrame>>

\* Mutant: self.frames[0] instead of self.frames[-1].
current_frame_first(fs) == 1

current_frame(fs) == Len(fs)

Context_set(fs, var_name, value) == Frame_set(fs, current_frame(fs), var_name, value)

Context_unset(fs, var_name) == Frame_unset(fs, current_frame(fs), var_name)

RECURSIVE SumFrom(_, _, _)
SumFrom(fs, i, value) ==
    IF i = 0 THEN 0 ELSE Frame_numequalto(fs[i], value) + SumFrom(fs, i - 1, value)

\* The count Context.numequalto prints.
Context_numequalto(fs, value) == SumFrom(fs, Len(fs), value)

Context_begin(fs) == Append(fs, NewFrame)

Pop(fs) == SubSeq(fs, 1, Len(fs) - 1)

\* Mutant: the guard tests for an empty stack, so the base frame is popped.
Context_rollback_guard0(fs) ==
    IF Len(fs) = 0
    THEN [frames |-> fs, out |-> InvalidRollback]
    ELSE [frames |-> Pop(fs), out |-> ""]

Context_rollback(fs) ==
    IF Len(fs) = 1
    THEN [frames |-> fs, out |-> InvalidRollback]
    ELSE [frames |-> Pop(fs), out |-> ""]

\* list(self.deleted) and self.data.keys() come in no particular order: an
\* order is a sequence holding every element of the set once.
Orders(S) == {s \in [1..Cardinality(S) -> S] : \A x \in S : \E j \in DOMAIN s : s[j] = x}

\* for deleted in frame.get_all_deleted(): ...   (st = [frames, seen])
RECURSIVE CommitDeleted(_, _)
CommitDeleted(st, todo) ==
    IF todo = <<>> THEN st
    ELSE LET deleted == Head(todo) IN
         IF deleted \in st.seen
         THEN CommitDeleted(st, Tail(todo))
         ELSE CommitDeleted([frames |-> Frame_unset(st.frames, 1, deleted),
                             seen |-> st.seen \cup {deleted}], Tail(todo))

\* Mutant: break instead of continue at a key already seen.
RECURSIVE CommitKeys_break(_, _)
CommitKeys_break(st, todo) ==
    IF todo = <<>> THEN st
    ELSE LET key == Head(todo)
             frame == st.frames[Len(st.frames)] IN
         IF key \in st.seen
         THEN st
         ELSE CommitKeys_break([frames |-> Frame_set(st.frames, 1, key, Frame_get(frame, key)),
                                seen |-> st.seen \cup {key}], Tail(todo))

\* Mutant: keys already seen in a higher frame are set again.
RECURSIVE CommitKeys_noSeen(_, _)
CommitKeys_noSeen(st, todo) ==
    IF todo = <<>> THEN st
    ELSE LET key == Head(todo)
             frame == st.frames[Len(st.frames)] IN
         CommitKeys_noSeen([frames |-> Frame_set(st.frames, 1, key, Frame_get(frame, key)),
                            seen |-> st.seen \cup {key}], Tail(todo))

\* for key in frame.keys(): ...   (frame is the top frame of st.frames)
RECURSIVE CommitKeys(_, _)
CommitKeys(st, todo) ==
    IF todo = <<>> THEN st
    ELSE LET key == Head(todo)
             frame == st.frames[Len(st.frames)] IN
         IF key \in st.seen
         THEN CommitKeys(st, Tail(todo))
         ELSE CommitKeys([frames |-> Frame_set(st.frames, 1, key, Frame_get(frame, key)),
                          seen |-> st.seen \cup {key}], Tail(todo))

\* Mutant: only the innermost transaction is folded and popped.
CommitLoop_innermost(st) ==
    LET frame == st.frames[Len(st.frames)] IN
    UNION { { Pop(CommitKeys(CommitDeleted(st, dOrd), kOrd).frames)
              : kOrd \in Orders(DOMAIN frame.data) }
            : dOrd \in Orders(frame.deleted) }

\* for frame in reversed(self.frames[1:]): ...; self.frames.pop()
\* Every way the two inner loops can be ordered gives one element.
RECURSIVE CommitLoop(_)
CommitLoop(st) ==
    IF Len(st.frames) = 1 THEN {st.frames}
    ELSE LET frame == st.frames[Len(st.frames)] IN
         UNION { UNION { LET s1 == CommitDeleted(st, dOrd)
                             s2 == CommitKeys(s1, kOrd) IN
                         CommitLoop([frames |-> Pop(s2.frames), seen |-> s2.seen])
                         : kOrd \in Orders(DOMAIN frame.data) }
                 : dOrd \in Orders(frame.deleted) }

\* Mutant: the guard tests for an empty stack, so nothing is reported.
Context_commit_guard0(fs) ==
    IF Len(fs) = 0
    THEN {[frames |-> fs, out |-> InvalidCommit]}
    ELSE {[frames |-> r, out |-> ""] : r \in CommitLoop([frames |-> fs, seen |-> {}])}

\* The set of outcomes of Context.commit.
Context_commit(fs) ==
    IF Len(fs) = 1
    THEN {[frames |-> fs, out |-> InvalidCommit]}
    ELSE {[frames |-> r, out |-> ""] : r \in CommitLoop([frames |-> fs, seen |-> {}])}

----------------------------------------------------------------------------
\* Observations

Gets(fs) == [k \in Keys |-> Printed(Context_get(fs, k))]

Counts(fs) == [v \in Values |-> Context_numequalto(fs, v)]

InRange(fs) ==
    \A i \in DOMAIN fs : \A v \in Values : SumFrom(fs, i, v) >= -MaxDeficit

----------------------------------------------------------------------------
\* The commands

Init ==
    /\ frames = Context_init
    /\ op = "init"
    /\ out = ""
    /\ ref = EmptyMap
    /\ saved = <<>>
    /\ snap = <<>>
    /\ depth0 = 1
    /\ begun = FALSE

Set(k, v) ==
    /\ frames' = Context_set(frames, k, v)
    /\ InRange(frames')
    /\ op' = "set"
    /\ depth0' = Len(frames)
    /\ out' = ""
    /\ ref' = Put(ref, k, v)
    /\ UNCHANGED <<saved, snap, begun>>

Unset(k) ==
    /\ frames' = Context_unset(frames, k)
    /\ InRange(frames')
    /\ op' = "unset"
    /\ depth0' = Len(frames)
    /\ out' = ""
    /\ ref' = Del(ref, k)
    /\ UNCHANGED <<saved, snap, begun>>

Begin ==
    /\ Len(frames) < MaxDepth
    /\ frames' = Context_begin(frames)
    /\ op' = "begin"
    /\ depth0' = Len(frames)
    /\ out' = ""
    /\ saved' = Append(saved, ref)
    /\ snap' = Append(snap, [gets |-> Gets(frames), counts |-> Counts(frames)])
    /\ begun' = TRUE
    /\ UNCHANGED ref

Rollback ==
    LET r == Context_rollback(frames) IN
    /\ frames' = r.frames
    /\ op' = "rollback"
    /\ depth0' = Len(frames)
    /\ out' = r.out
    /\ IF saved = <<>>
       THEN UNCHANGED <<ref, saved, snap>>
       ELSE /\ ref' = saved[Len(saved)]
            /\ saved' = Pop(saved)
            /\ snap' = Pop(snap)
    /\ UNCHANGED begun

Commit ==
    \E r \in Context_commit(frames) :
        /\ frames' = r.frames
        /\ InRange(frames')
        /\ op' = "commit"
        /\ depth0' = Len(frames)
        /\ out' = r.out
        /\ saved' = <<>>
        /\ snap' = <<>>
        /\ UNCHANGED <<ref, begun>>

Next ==
    \/ \E k \in Keys, v \in Values : Set(k, v)
    \/ \E k \in Keys : Unset(k)
    \/ Begin
    \/ Rollback
    \/ Commit

Spec == Init /\ [][Next]_vars

\* Sessions in which COMMIT is never issued.
NextNoCommit ==
    \/ \E k \in Keys, v \in Values : Set(k, v)
    \/ \E k \in Keys : Unset(k)
    \/ Begin
    \/ Rollback

SpecNoCommit == Init /\ [][NextNoCommit]_vars

----------------------------------------------------------------------------
\* What the properties are stated against

\* The effective value of a key: the decision of the topmost frame in which the
\* key is assigned or deleted; None when it is deleted there or never touched.
RECURSIVE EffectiveFrom(_, _, _)
EffectiveFrom(fs, i, k) ==
    IF i = 0 THEN None
    ELSE IF k \in fs[i].deleted THEN None
    ELSE IF k \in DOMAIN fs[i].data THEN fs[i].data[k]
    ELSE EffectiveFrom(fs, i - 1, k)

Effective(fs, k) == EffectiveFrom(fs, Len(fs), k)

\* The number of keys whose effective value is v, by a scan of the whole stack.
TrueCount(fs, v) == Cardinality({k \in Keys : Effective(fs, k) = v})

\* The value of k in the reference map, NULL when absent.
RefGet(k) == IF k \in DOMAIN ref THEN ref[k] ELSE NULL

\* The topmost transaction frame in which k is assigned or deleted, 0 if none.
RECURSIVE TopTouch(_, _, _)
TopTouch(fs, i, k) ==
    IF i <= 1 THEN 0
    ELSE IF k \in fs[i].deleted \/ k \in DOMAIN fs[i].data THEN i
    ELSE TopTouch(fs, i - 1, k)

\* The base frame alone, with the topmost decision for each key of S applied
\* to it as a plain set or unset while no transaction is open.
RECURSIVE DirectFold(_, _, _)
DirectFold(b, S, fs) ==
    IF S = {} THEN b
    ELSE LET k == CHOOSE x \in S : TRUE
             i == TopTouch(fs, Len(fs), k)
             b1 == IF i = 0 THEN b
                   ELSE IF k \in fs[i].deleted THEN Context_unset(b, k)
                   ELSE Context_set(b, k, fs[i].data[k]) IN
         DirectFold(b1, S \ {k}, fs)

Direct(fs) == DirectFold(<<fs[1]>>, Keys, fs)

\* The counters n with the one for value w lowered by 1, untouched for None.
DecFor(n, w) == IF w = None THEN n ELSE [n EXCEPT ![w] = @ - 1]

IncFor(n, w) == [n EXCEPT ![w] = @ + 1]

\* The base frame's counters after a fold in which every set or unset of a key
\* lowers a counter only for the value the key has in the base frame's own data.
RECURSIVE BaseOnlyFold(_, _, _)
BaseOnlyFold(n, S, fs) ==
    IF S = {} THEN n
    ELSE LET k == CHOOSE x \in S : TRUE
             i == TopTouch(fs, Len(fs), k)
             n1 == DecFor(n, Frame_get(fs[1], k))
             n2 == IF i = 0 THEN n
                   ELSE IF k \in fs[i].deleted THEN n1
                   ELSE IncFor(n1, fs[i].data[k]) IN
         BaseOnlyFold(n2, S \ {k}, fs)

BaseOnlyNumbers(fs) == BaseOnlyFold(fs[1].numbers, Keys, fs)

\* The top frame's counters after the decrement for key k, when the old value
\* is the key's effective value in the frames beneath the top frame, and when
\* it is the key's effective value through the whole stack (the top frame's
\* deleted set included).
DecrementedBeneath(fs, k) ==
    DecFor(fs[Len(fs)].numbers, EffectiveFrom(fs, Len(fs) - 1, k))

DecrementedThrough(fs, k) ==
    DecFor(fs[Len(fs)].numbers, Effective(fs, k))

ValidCommitStep == op' = "commit" /\ Len(frames) > 1

ValidRollbackStep == op' = "rollback" /\ Len(frames) > 1

----------------------------------------------------------------------------
\* Properties

\* C1: in every reachable state, for every value v, numequalto(v) (the sum of
\* the frames' counters for v) is the number of keys whose effective value is v.
C1_CountInvariant ==
    \A v \in Values : Context_numequalto(frames, v) = TrueCount(frames, v)

\* C2: a commit with a transaction open leaves numequalto(v) as it was, for
\* every value v.
C2_CommitKeepsCounts ==
    [][ValidCommitStep => Counts(frames') = Counts(frames)]_vars

\* C3: a commit with a transaction open leaves what get(k) prints as it was,
\* for every key k.
C3_CommitKeepsGets ==
    [][ValidCommitStep => Gets(frames') = Gets(frames)]_vars

C3_Witness ==
    /\ op = "commit" /\ out = "" /\ depth0 >= 3
    /\ \E k \in Keys : Gets(frames)[k] # NULL
    /\ \E k \in Keys : k \in frames[1].deleted

\* C4: a rollback with a transaction open pops exactly the top frame, and every
\* get and numequalto then gives what it gave just before the begin that pushed
\* that frame.
C4_RollbackReverts ==
    [][ValidRollbackStep =>
          /\ frames' = Pop(frames)
          /\ Gets(frames') = snap[Len(snap)].gets
          /\ Counts(frames') = snap[Len(snap)].counts]_vars

C4_Witness ==
    /\ op = "rollback" /\ out = "" /\ depth0 >= 3
    /\ \E k \in Keys : Gets(frames)[k] # NULL
    /\ \E k \in Keys : k \in frames[Len(frames)].deleted

\* C5: what get(k) prints is the value of k in the reference map (saved on
\* begin, restored on a valid rollback, copies dropped on a valid commit), NULL
\* when k is absent from it.
C5_GetMatchesReference ==
    \A k \in Keys : Printed(Context_get(frames, k)) = RefGet(k)

C5_Witness ==
    /\ Len(frames) >= 3
    /\ \E k \in Keys : k \in frames[Len(frames)].deleted /\ k \in DOMAIN frames[1].data
    /\ \E k \in Keys : k \in DOMAIN frames[2].data /\ k \notin DOMAIN frames[1].data

\* C6: a rollback with only the base frame on the stack prints INVALID ROLLBACK
\* and changes nothing of the stack.
C6_InvalidRollbackNoOp ==
    [][(op' = "rollback" /\ Len(frames) = 1) =>
          (out' = InvalidRollback /\ frames' = frames)]_vars

C6_Witness ==
    /\ op = "rollback" /\ out = InvalidRollback
    /\ Len(frames) = 1
    /\ DOMAIN frames[1].data # {} /\ frames[1].deleted # {}

\* C7: a commit with only the base frame on the stack prints INVALID COMMIT and
\* changes nothing of the stack.
C7_InvalidCommitNoOp ==
    [][(op' = "commit" /\ Len(frames) = 1) =>
          (out' = InvalidCommit /\ frames' = frames)]_vars

C7_Witness ==
    /\ op = "commit" /\ out = InvalidCommit
    /\ Len(frames) = 1
    /\ DOMAIN frames[1].data # {} /\ frames[1].deleted # {}

\* C8: when no commit is ever executed, in every reachable state and for every
\* value v, numequalto(v) is the number of keys whose effective value is v.
C8_CountInvariantNoCommit ==
    \A v \in Values :
        Cardinality({k \in Keys : Effective(frames, k) = v}) = Counts(frames)[v]

\* C9: while no transaction has ever been opened, get(k) prints the value of
\* the last set of k (NULL after an unset or without a set), and numequalto(v)
\* is the number of keys holding v, for every key k and value v.
C9_SingleLayer ==
    ~begun =>
        /\ \A k \in Keys : Gets(frames)[k] = RefGet(k)
        /\ \A v \in Values :
               Context_numequalto(frames, v) =
                   Cardinality({k \in DOMAIN ref : ref[k] = v})

\* C10: after a commit with a transaction open, every get and numequalto gives
\* what it gives on the base frame alone with, for each key touched in an open
\* frame, the decision of the topmost such frame applied to it directly.
C10_CommitIsDirectApplication ==
    [][ValidCommitStep =>
          /\ Gets(frames') = Gets(Direct(frames))
          /\ Counts(frames') = Counts(Direct(frames))]_vars

\* C11: begin adds exactly one frame; a rollback with a transaction open
\* removes exactly one; a commit with a transaction open leaves exactly the
\* base frame, whatever the depth was.
C11_DepthTransitions ==
    [][/\ op' = "begin" => Len(frames') = Len(frames) + 1
       /\ ValidRollbackStep => Len(frames') = Len(frames) - 1
       /\ ValidCommitStep => Len(frames') = 1]_vars

C11_Witness ==
    /\ op = "commit" /\ out = "" /\ depth0 >= 3 /\ Len(frames) = 1
    /\ DOMAIN frames[1].data = Keys

\* C12: the stack always holds at least one frame, and neither rollback nor
\* commit removes the frame at the bottom: rollback leaves it as it is and
\* both leave at least one frame.
C12_BaseFrameStays ==
    /\ Len(frames) >= 1
    /\ Len(Context_rollback(frames).frames) >= 1
    /\ Context_rollback(frames).frames[1] = frames[1]
    /\ \A r \in Context_commit(frames) : Len(r.frames) >= 1

C12_Witness ==
    /\ op \in {"rollback", "commit"} /\ out = "" /\ Len(frames) = 1
    /\ DOMAIN frames[1].data # {}
    /\ depth0 = 2

\* C13: in the fold of a commit, every set or unset applied to the base frame
\* lowers the base frame's counter only for the value the key is assigned in
\* the base frame itself, and for none when the key is not assigned there.
C13_FoldResolvesInBase ==
    [][ValidCommitStep => frames'[1].numbers = BaseOnlyNumbers(frames)]_vars

\* C14: a set or unset of a key that is not in the top frame's data lowers the
\* top frame's counters by 1 for exactly the effective value the key has
\* beneath (read either as the frames under the top frame or as the stack's
\* own lookup), and lowers none when the key has no effective value.
C14_DecrementRule ==
    [][\A k \in Keys \ DOMAIN frames[Len(frames)].data :
          /\ (op' = "unset" /\ frames' = Context_unset(frames, k)) =>
                 frames'[Len(frames)].numbers \in
                     {DecrementedBeneath(frames, k), DecrementedThrough(frames, k)}
          /\ \A v \in Values :
                 (op' = "set" /\ frames' = Context_set(frames, k, v)) =>
                     frames'[Len(frames)].numbers \in
                         {IncFor(DecrementedBeneath(frames, k), v),
                          IncFor(DecrementedThrough(frames, k), v)}]_vars

\* C15: in no frame of the stack is a key both in data and in deleted; a set
\* of k leaves k out of the top frame's deleted set and an unset of k leaves k
\* out of its data.
C15_AssignedDeletedDisjoint ==
    /\ \A i \in DOMAIN frames : (DOMAIN frames[i].data) \cap frames[i].deleted = {}
    /\ \A k \in Keys :
          /\ k \notin DOMAIN Context_unset(frames, k)[Len(frames)].data
          /\ \A v \in Values : k \notin Context_set(frames, k, v)[Len(frames)].deleted

C15_Witness ==
    /\ op = "set" /\ Len(frames) >= 2
    /\ DOMAIN frames[Len(frames)].data # {} /\ frames[Len(frames)].deleted # {}
    /\ DOMAIN frames[1].data # {} /\ frames[1].deleted # {}

\* C16: a set or unset changes the top frame only: the depth and every frame
\* beneath the top one stay as they were.
C16_OnlyTopFrameChanges ==
    [][op' \in {"set", "unset"} =>
          /\ Len(frames') = Len(frames)
          /\ \A i \in 1..(Len(frames) - 1) : frames'[i] = frames[i]]_vars

C16_Witness ==
    /\ op \in {"set", "unset"} /\ Len(frames) = 3
    /\ DOMAIN frames[1].data # {} /\ frames[2].deleted # {}
    /\ frames[3] # NewFrame

\* C17: numequalto(v) is never negative, for every string v a client can pass,
\* the string NULL included.
C17_CountsNeverNegative ==
    \A v \in Values : Context_numequalto(frames, v) >= 0

\* C18: an unset of a key that has no effective value (never set, or already
\* unset) changes no get and no numequalto result.
C18_UnsetAbsentIsNoOp ==
    [][\A k \in Keys :
          (op' = "unset" /\ frames' = Context_unset(frames, k)
                /\ Effective(frames, k) = None) =>
              (Gets(frames') = Gets(frames) /\ Counts(frames') = Counts(frames))]_vars

\* C19: whatever the order in which the deleted keys and the assigned keys of
\* each transaction frame are visited, commit ends with the same stack.
C19_CommitOrderIndependent ==
    Cardinality(Context_commit(frames)) = 1

C19_Witness ==
    /\ Len(frames) = 3
    /\ Cardinality(DOMAIN frames[3].data) = 1 /\ frames[3].deleted = {}
    /\ Cardinality(DOMAIN frames[2].data) = 2
    /\ frames[1].deleted # {}

----------------------------------------------------------------------------
\* Auxiliary facts, checked alongside the properties above

\* For every value other than the string NULL the counters are exact as long
\* as no commit is executed (holds under SpecNoCommit, fails under Spec).
OtherValuesCountInvariant ==
    \A v \in Values \ {NULL} : Context_numequalto(frames, v) = TrueCount(frames, v)

\* What get prints after a commit is what direct application gives (holds
\* under Spec); only the counters differ.
CommitGetsAreDirectApplication ==
    [][ValidCommitStep => Gets(frames') = Gets(Direct(frames))]_vars

\* For a key whose topmost mark is not a deletion, a set or unset lowers the
\* top frame's counters for exactly the key's effective value (holds under
\* Spec); only the 'NULL' returned for a deleted key is counted wrongly.
DecrementRuleAwayFromDeletions ==
    [][\A k \in Keys \ DOMAIN frames[Len(frames)].data :
          (Context_get(frames, k) = None \/ Effective(frames, k) # None) =>
              /\ (op' = "unset" /\ frames' = Context_unset(frames, k)) =>
                     frames'[Len(frames)].numbers = DecrementedThrough(frames, k)
              /\ \A v \in Values :
                     (op' = "set" /\ frames' = Context_set(frames, k, v)) =>
                         frames'[Len(frames)].numbers =
                             IncFor(DecrementedThrough(frames, k), v)]_vars

====
